---------------------------- MODULE Spec2Model ----------------------------
(***************************************************************************)
(* Admission control (backend/rate_limit.py), the asynchronous audit       *)
(* logger (backend/async_logger.py) and the /v1/check handler              *)
(* (backend/main.py) of ai-governance-mvp.                                 *)
(*                                                                         *)
(* All of them run on one asyncio event loop: a coroutine runs without     *)
(* interruption between two awaits, so every action below is the code      *)
(* between two suspension points of one coroutine.                         *)
(***************************************************************************)
EXTENDS Integers, Sequences, FiniteSets, TLC

(***************************************************************************)
(* Bounds of the model.                                                    *)
(***************************************************************************)
MaxTime == 2            \* the wall clock int(time()) runs over 0..MaxTime
MaxCalls == 3           \* allow_request calls started in one behaviour
NumTasks == 2           \* request-handling tasks on the event loop
MaxLimit == 2           \* limit is drawn from 0..MaxLimit
MaxWindow == 2          \* window is drawn from 1..MaxWindow

Tasks == 1..NumTasks
ApiKeyIds == {"", "k1"}  \* api_key.id values; "" is what auth.py yields for the token ".secret"

VARIABLES
    now,                \* int(time())
    REDIS_URL,          \* TRUE iff the environment variable is set
    limit, window,      \* the arguments every caller passes (main.py passes one fixed pair)
    redis_status,       \* the store: "up", "down" (unreachable) or "garbled" (replies unusable)
    redis_db,           \* the store's keys: key -> [val, exp]
    _redis_client,      \* "None" or "client"
    _redis_available,
    _rate_limit_state,  \* dict key -> <<count, window_start>>
    pc, tkey, tnow,     \* per task: position in allow_request and its locals key, now
    hist,               \* per key, the decisions returned so far, in order of return
    overlapped          \* TRUE once two allow_request calls have been in flight together

rlvars == <<now, REDIS_URL, limit, window, redis_status, redis_db, _redis_client,
            _redis_available, _rate_limit_state, pc, tkey, tnow, hist, overlapped>>

QUEUE_SIZE == 3         \* async_logger.py:27 sets 1000; scaled down
BATCH_SIZE == 2         \* async_logger.py:28 sets 50; scaled down
FLUSH_INTERVAL == 2     \* async_logger.py:29 sets 5; scaled down
MaxEntries == 4         \* queue_log calls in one behaviour

VARIABLES
    _log_queue,         \* <<>> is None; <<q>> is the asyncio.Queue holding the sequence q
    _worker_task,       \* "None" or "task"
    wpc,                \* the worker task: "none", "top" (of its loop), "waiting" (in wait_for),
                        \*   "write" (in _batch_write), "done"
    batch,              \* the worker's local batch
    since_flush,        \* loop.time() - last_flush, in ticks, saturating at FLUSH_INTERVAL
    spc,                \* shutdown_logger: "idle", "write" (in _batch_write), "await_worker"
    writes,             \* the _batch_write calls: [batch, by, st], st in inflight/ok/failed/cancelled
    next_id,            \* id of the next LogEntry
    accepted,           \* ids for which queue_log returned True
    qlog_ret,           \* return values of queue_log since the current queue was created
    consumed,           \* TRUE once an entry has been taken out of the current queue
    init_id,            \* next_id when init_logger created the current queue
    sd_accepted,        \* ids accepted for the current queue when shutdown_logger was last invoked
    sd_queue,           \* ids sitting in the queue when shutdown_logger was last invoked
    sd_returned,        \* TRUE while the last shutdown_logger call has returned
    workers,            \* the _worker_loop tasks created and not yet ended
    reinit              \* TRUE once init_logger was called on the current, initialised logger

logvars == <<_log_queue, _worker_task, wpc, batch, since_flush, spc, writes, next_id,
             accepted, qlog_ret, consumed, init_id, sd_accepted, sd_queue, sd_returned,
             workers, reinit>>

MaxDepth == 2           \* nesting depth of the values inside a request's metadata
MaxCleanups == 1        \* cleanup_old_buckets calls in one behaviour

VARIABLES
    last_check,         \* the last /v1/check request served: what it sent and what it got
    logs_dropped_total, \* metrics.py:72: the Counter of dropped logs
    cleanup_call,       \* cleanup_old_buckets calls so far: [n, max_age] of the last one
    outage_warnings     \* rate_limit.py:161: the fallback warnings logged since the store
                        \*   was last reachable

appvars == <<last_check, logs_dropped_total, cleanup_call, outage_warnings>>

vars == <<rlvars, logvars, appvars>>

Max(a, b) == IF a >= b THEN a ELSE b

\* rate_limit.py:110-112
get_rate_limit_key(api_key_id) == "rl:" \o api_key_id

Keys == {get_rate_limit_key(i) : i \in ApiKeyIds}

(***************************************************************************)
(* The store.  A value is the string the script wrote, split at ':' :      *)
(* <<count>> is the string "count", <<count, reset_at>> is                 *)
(* "count:reset_at".  <<>> stands for the absent key (GET returns false).  *)
(* SET key v EX window makes the key vanish window seconds later.          *)
(***************************************************************************)
RedisGET(db, key, srvnow) ==
    IF key \in DOMAIN db /\ srvnow < db[key].exp THEN db[key].val ELSE <<>>

RedisSETEX_ReplacesDb(db, key, v, ex, srvnow) ==
    (key :> [val |-> v, exp |-> srvnow + ex])

RedisSETEX(db, key, v, ex, srvnow) ==
    (key :> [val |-> v, exp |-> srvnow + ex]) @@ db

\* rate_limit.py:38-78.  argnow is ARGV[3]; srvnow is the store's own clock.
RATE_LIMIT_LUA(db, key, lim, win, argnow, srvnow) ==
    LET current == RedisGET(db, key, srvnow) IN
    IF current = <<>>
    THEN [db  |-> RedisSETEX(db, key, <<1>>, win, srvnow),
          ret |-> <<lim - 1, argnow + win>>]
    ELSE LET count    == current[1]
             reset_at == IF Len(current) = 2 THEN current[2] ELSE argnow + win
         IN  IF argnow >= reset_at
             THEN [db  |-> RedisSETEX(db, key, <<1>>, win, srvnow),
                   ret |-> <<lim - 1, argnow + win>>]
             ELSE IF count < lim
             THEN [db  |-> RedisSETEX(db, key, <<count + 1, reset_at>>, win, srvnow),
                   ret |-> <<lim - (count + 1), reset_at>>]
             ELSE [db  |-> db,
                   ret |-> <<0, reset_at>>]

\* rate_limit.py:153-159: the decision allow_request derives from the script's result
RedisDecision(result) ==
    [allowed   |-> result[1] >= 0,
     remaining |-> Max(0, result[1]),
     reset_at  |-> result[2],
     backend   |-> "redis"]

MemoryDecide_LateReset(state, key, lim, win, t) ==
    IF key \notin DOMAIN state
    THEN [state |-> (key :> <<1, t>>) @@ state,
          allowed |-> TRUE, remaining |-> lim - 1, reset_at |-> t + win, backend |-> "memory"]
    ELSE LET count        == state[key][1]
             window_start == state[key][2]
             elapsed      == t - window_start
         IN  IF elapsed > win
             THEN [state |-> (key :> <<1, t>>) @@ state,
                   allowed |-> TRUE, remaining |-> lim - 1, reset_at |-> t + win,
                   backend |-> "memory"]
             ELSE IF count < lim
             THEN [state |-> (key :> <<count + 1, window_start>>) @@ state,
                   allowed |-> TRUE, remaining |-> lim - (count + 1),
                   reset_at |-> window_start + win, backend |-> "memory"]
             ELSE [state |-> state,
                   allowed |-> FALSE, remaining |-> 0,
                   reset_at |-> window_start + win, backend |-> "memory"]

MemoryDecide_CountsDenied(state, key, lim, win, t) ==
    IF key \notin DOMAIN state
    THEN [state |-> (key :> <<1, t>>) @@ state,
          allowed |-> TRUE, remaining |-> lim - 1, reset_at |-> t + win, backend |-> "memory"]
    ELSE LET count        == state[key][1]
             window_start == state[key][2]
             elapsed      == t - window_start
         IN  IF elapsed >= win
             THEN [state |-> (key :> <<1, t>>) @@ state,
                   allowed |-> TRUE, remaining |-> lim - 1, reset_at |-> t + win,
                   backend |-> "memory"]
             ELSE [state |-> (key :> <<count + 1, window_start>>) @@ state,
                   allowed |-> count < lim,
                   remaining |-> IF count < lim THEN lim - (count + 1) ELSE 0,
                   reset_at |-> window_start + win, backend |-> "memory"]

\* rate_limit.py:163-198: the in-memory token bucket
MemoryDecide(state, key, lim, win, t) ==
    IF key \notin DOMAIN state
    THEN [state |-> (key :> <<1, t>>) @@ state,
          allowed |-> TRUE, remaining |-> lim - 1, reset_at |-> t + win, backend |-> "memory"]
    ELSE LET count        == state[key][1]
             window_start == state[key][2]
             elapsed      == t - window_start
         IN  IF elapsed >= win
             THEN [state |-> (key :> <<1, t>>) @@ state,
                   allowed |-> TRUE, remaining |-> lim - 1, reset_at |-> t + win,
                   backend |-> "memory"]
             ELSE IF count < lim
             THEN [state |-> (key :> <<count + 1, window_start>>) @@ state,
                   allowed |-> TRUE, remaining |-> lim - (count + 1),
                   reset_at |-> window_start + win, backend |-> "memory"]
             ELSE [state |-> state,
                   allowed |-> FALSE, remaining |-> 0,
                   reset_at |-> window_start + win, backend |-> "memory"]

\* str() of an int, as the header values are built (rate_limit.py:229-232)
Digit(n) ==
    CASE n = 0 -> "0" [] n = 1 -> "1" [] n = 2 -> "2" [] n = 3 -> "3" [] n = 4 -> "4"
      [] n = 5 -> "5" [] n = 6 -> "6" [] n = 7 -> "7" [] n = 8 -> "8" [] n = 9 -> "9"

RECURSIVE StrNat(_)
StrNat(n) == IF n < 10 THEN Digit(n) ELSE StrNat(n \div 10) \o Digit(n % 10)

str(n) == IF n < 0 THEN "-" \o StrNat(0 - n) ELSE StrNat(n)

\* what check_rate_limit does when it raises nothing
NoError == [raised |-> FALSE, status_code |-> 0, headers |-> <<>>]

check_rate_limit_RaisesOnLastToken(lim, d) ==
    IF d.remaining <= 0
    THEN [raised |-> TRUE, status_code |-> 429,
          headers |-> [Limit |-> str(lim), Remaining |-> str(d.remaining),
                       Reset |-> str(d.reset_at), Backend |-> d.backend]]
    ELSE NoError

\* rate_limit.py:223-234: the HTTPException raised for the decision d of allow_request
\* (the fields of `headers` are the X-RateLimit-* headers)
check_rate_limit(lim, d) ==
    IF ~d.allowed
    THEN [raised |-> TRUE, status_code |-> 429,
          headers |-> [Limit |-> str(lim), Remaining |-> str(d.remaining),
                       Reset |-> str(d.reset_at), Backend |-> d.backend]]
    ELSE NoError

\* one returned decision: the call's `now`, the (allowed, info) it returned, and what
\* check_rate_limit, the caller of allow_request in main.py, makes of it
HistEntry(t, d) ==
    [at |-> t, allowed |-> d.allowed, remaining |-> d.remaining,
     reset_at |-> d.reset_at, backend |-> d.backend, http |-> check_rate_limit(limit, d)]

Busy == {t \in Tasks : pc[t] # "idle"}
Returned == LET RECURSIVE Sum(_)
                Sum(S) == IF S = {} THEN 0
                          ELSE LET k == CHOOSE x \in S : TRUE
                               IN  Len(hist[k]) + Sum(S \ {k})
            IN  Sum(Keys)
Started == Returned + Cardinality(Busy)

RLInit ==
    /\ now = 0
    /\ REDIS_URL \in BOOLEAN
    /\ limit \in 0..MaxLimit
    /\ window \in 1..MaxWindow
    /\ redis_status = "up"
    /\ redis_db = <<>>
    /\ _redis_client = "None"
    /\ _redis_available = FALSE
    /\ _rate_limit_state = <<>>
    /\ pc = [t \in Tasks |-> "idle"]
    /\ tkey = [t \in Tasks |-> ""]
    /\ tnow = [t \in Tasks |-> 0]
    /\ hist = [k \in Keys |-> <<>>]
    /\ overlapped = FALSE

\* the wall clock advances
Tick ==
    /\ now < MaxTime
    /\ now' = now + 1
    /\ UNCHANGED <<REDIS_URL, limit, window, redis_status, redis_db, _redis_client,
                   _redis_available, _rate_limit_state, pc, tkey, tnow, hist, overlapped>>
    /\ UNCHANGED logvars
    /\ UNCHANGED appvars

\* the configured store becomes unreachable, reachable again, or starts answering garbage
RedisEnv ==
    /\ REDIS_URL
    /\ \E s \in {"up", "down", "garbled"} :
          /\ s # redis_status
          /\ redis_status' = s
          /\ outage_warnings' = IF s = "up" THEN 0 ELSE outage_warnings
    /\ UNCHANGED <<now, REDIS_URL, limit, window, redis_db, _redis_client,
                   _redis_available, _rate_limit_state, pc, tkey, tnow, hist, overlapped>>
    /\ UNCHANGED logvars
    /\ UNCHANGED <<last_check, logs_dropped_total, cleanup_call>>

\* rate_limit.py:81-99.  With REDIS_URL set, import/from_url may fail (the client
\* stays None) or ping may fail (the client is kept); both leave the flag False.
_init_redis(importOk) ==
    IF ~REDIS_URL
    THEN [client |-> _redis_client, available |-> FALSE]
    ELSE IF ~importOk
    THEN [client |-> _redis_client, available |-> FALSE]
    ELSE IF redis_status = "up"
    THEN [client |-> "client", available |-> TRUE]
    ELSE [client |-> "client", available |-> FALSE]

\* rate_limit.py:102-107, called by code outside allow_request (a start-up hook, a test)
get_redis ==
    /\ \E importOk \in BOOLEAN :
          LET r == IF _redis_client = "None" THEN _init_redis(importOk)
                   ELSE [client |-> _redis_client, available |-> _redis_available]
          IN  /\ _redis_client' = r.client
              /\ _redis_available' = r.available
    /\ UNCHANGED <<now, REDIS_URL, limit, window, redis_status, redis_db,
                   _rate_limit_state, pc, tkey, tnow, hist, overlapped>>
    /\ UNCHANGED logvars
    /\ UNCHANGED appvars

\* the decision is returned to the caller of allow_request
Return(key, t, d) == hist' = [hist EXCEPT ![key] = Append(@, HistEntry(t, d))]

\* rate_limit.py:136-143 and, when the flag is False, 163-198: the call starts; without
\* the distributed backend it runs to its return without suspending.  Tasks are
\* interchangeable, so a new call takes the first idle one.
AllowStart(t, id) ==
    /\ pc[t] = "idle"
    /\ \A u \in Tasks : u < t => pc[u] # "idle"
    /\ Started < MaxCalls
    /\ LET key == get_rate_limit_key(id) IN
       IF _redis_available /\ _redis_client # "None"
       THEN /\ pc' = [pc EXCEPT ![t] = "eval"]
            /\ tkey' = [tkey EXCEPT ![t] = key]
            /\ tnow' = [tnow EXCEPT ![t] = now]
            /\ UNCHANGED <<_rate_limit_state, hist>>
       ELSE LET d == MemoryDecide(_rate_limit_state, key, limit, window, now) IN
            /\ _rate_limit_state' = d.state
            /\ Return(key, now, d)
            /\ UNCHANGED <<pc, tkey, tnow>>
    /\ overlapped' = (overlapped \/ Busy # {})
    /\ UNCHANGED <<now, REDIS_URL, limit, window, redis_status, redis_db, _redis_client,
                   _redis_available>>
    /\ UNCHANGED logvars
    /\ UNCHANGED appvars

\* rate_limit.py:145-153: what `await redis.eval(...)` and the unpacking of its result
\* raise: nothing when the store answers, ConnectionError when it is unreachable,
\* TypeError when the answer is not a pair of numbers
EvalException(status) ==
    CASE status = "up"      -> "none"
      [] status = "down"    -> "ConnectionError"
      [] status = "garbled" -> "TypeError"

ExceptCatches_OnlyConnection(exc) == exc = "ConnectionError"

\* rate_limit.py:160: `except Exception` catches every exception of the try block
ExceptCatches(exc) == TRUE

\* an exception that leaves allow_request, as the caller's history records it
Raised == [allowed |-> FALSE, remaining |-> 0, reset_at |-> 0, backend |-> "raised"]

\* rate_limit.py:160-161: the except branch logs its warning, whatever was logged before
LogFallbackWarning == outage_warnings + 1

\* rate_limit.py:145-198: the store serves the EVAL of a suspended call and the call
\* resumes.  A reachable store runs the script atomically and the call returns its
\* result; a garbled one runs the script too, but its answer is unusable.  A caught
\* exception sends the call to the in-memory bucket with the `now` it took before
\* suspending.
RedisEval(t) ==
    /\ pc[t] = "eval"
    /\ LET r   == RATE_LIMIT_LUA(redis_db, tkey[t], limit, window, tnow[t], now)
           d   == MemoryDecide(_rate_limit_state, tkey[t], limit, window, tnow[t])
           exc == EvalException(redis_status)
       IN  /\ redis_db' = IF redis_status = "down" THEN redis_db ELSE r.db
           /\ IF exc = "none"
              THEN /\ Return(tkey[t], tnow[t], RedisDecision(r.ret))
                   /\ UNCHANGED <<_rate_limit_state, outage_warnings>>
              ELSE IF ExceptCatches(exc)
              THEN /\ outage_warnings' = LogFallbackWarning
                   /\ _rate_limit_state' = d.state
                   /\ Return(tkey[t], tnow[t], d)
              ELSE /\ Return(tkey[t], tnow[t], Raised)
                   /\ UNCHANGED <<_rate_limit_state, outage_warnings>>
    /\ pc' = [pc EXCEPT ![t] = "idle"]
    /\ tkey' = [tkey EXCEPT ![t] = ""]
    /\ tnow' = [tnow EXCEPT ![t] = 0]
    /\ UNCHANGED <<now, REDIS_URL, limit, window, redis_status, _redis_client,
                   _redis_available, overlapped>>
    /\ UNCHANGED logvars
    /\ UNCHANGED <<last_check, logs_dropped_total, cleanup_call>>

\* the max_age arguments of cleanup_old_buckets
MaxAges == 0..MaxWindow

cleanup_old_buckets_IgnoresMaxAge(max_age) ==
    /\ cleanup_call.n < MaxCleanups
    /\ cleanup_call' = [n |-> cleanup_call.n + 1, max_age |-> max_age]
    /\ IF _redis_available
       THEN UNCHANGED _rate_limit_state
       ELSE LET expired_keys == {key \in DOMAIN _rate_limit_state :
                                    now - _rate_limit_state[key][2] > 0}
            IN  _rate_limit_state' = [key \in (DOMAIN _rate_limit_state) \ expired_keys |->
                                         _rate_limit_state[key]]
    /\ UNCHANGED <<now, REDIS_URL, limit, window, redis_status, redis_db, _redis_client,
                   _redis_available, pc, tkey, tnow, hist, overlapped>>
    /\ UNCHANGED logvars
    /\ UNCHANGED <<last_check, logs_dropped_total, outage_warnings>>

\* rate_limit.py:237-258; the function does not suspend
cleanup_old_buckets(max_age) ==
    /\ cleanup_call.n < MaxCleanups
    /\ cleanup_call' = [n |-> cleanup_call.n + 1, max_age |-> max_age]
    /\ IF _redis_available
       THEN UNCHANGED _rate_limit_state
       ELSE LET expired_keys == {key \in DOMAIN _rate_limit_state :
                                    now - _rate_limit_state[key][2] > max_age}
            IN  _rate_limit_state' = [key \in (DOMAIN _rate_limit_state) \ expired_keys |->
                                         _rate_limit_state[key]]
    /\ UNCHANGED <<now, REDIS_URL, limit, window, redis_status, redis_db, _redis_client,
                   _redis_available, pc, tkey, tnow, hist, overlapped>>
    /\ UNCHANGED logvars
    /\ UNCHANGED <<last_check, logs_dropped_total, outage_warnings>>

(***************************************************************************)
(* backend/async_logger.py                                                 *)
(***************************************************************************)
Min(a, b) == IF a <= b THEN a ELSE b
Range(q) == {q[i] : i \in 1..Len(q)}
Items == _log_queue[1]

LogInit ==
    /\ _log_queue = <<>>
    /\ _worker_task = "None"
    /\ wpc = "none"
    /\ batch = <<>>
    /\ since_flush = 0
    /\ spc = "idle"
    /\ writes = <<>>
    /\ next_id = 1
    /\ accepted = {}
    /\ qlog_ret = <<>>
    /\ consumed = FALSE
    /\ init_id = 1
    /\ sd_accepted = {}
    /\ sd_queue = {}
    /\ sd_returned = FALSE
    /\ workers = 0
    /\ reinit = FALSE

\* the event loop's clock advances
LoopTick ==
    /\ since_flush' = Min(since_flush + 1, FLUSH_INTERVAL)
    /\ UNCHANGED <<_log_queue, _worker_task, wpc, batch, spc, writes, next_id,
                   accepted, qlog_ret, consumed, init_id, sd_accepted, sd_queue, sd_returned>>
    /\ UNCHANGED <<workers, reinit>>
    /\ UNCHANGED rlvars
    /\ UNCHANGED appvars

init_logger_Reinitialises ==
    /\ _log_queue' = << <<>> >>
    /\ _worker_task' = "task"
    /\ workers' = workers + 1
    /\ wpc' = "top"
    /\ batch' = <<>>
    /\ since_flush' = 0
    /\ qlog_ret' = <<>>
    /\ consumed' = FALSE
    /\ init_id' = next_id
    /\ reinit' = (_log_queue # <<>>)
    /\ UNCHANGED <<spc, writes, next_id, accepted, sd_accepted, sd_queue, sd_returned>>
    /\ UNCHANGED rlvars
    /\ UNCHANGED appvars

\* async_logger.py:63-73
init_logger ==
    /\ IF _log_queue # <<>>
       THEN /\ reinit' = TRUE
            /\ UNCHANGED <<_log_queue, _worker_task, workers, wpc, batch, since_flush,
                           qlog_ret, consumed, init_id>>
       ELSE /\ _log_queue' = << <<>> >>
            /\ _worker_task' = "task"
            /\ workers' = workers + 1
            /\ wpc' = "top"
            /\ batch' = <<>>
            /\ since_flush' = 0
            /\ qlog_ret' = <<>>
            /\ consumed' = FALSE
            /\ init_id' = next_id
            /\ reinit' = FALSE
    /\ UNCHANGED <<spc, writes, next_id, accepted, sd_accepted, sd_queue, sd_returned>>
    /\ UNCHANGED rlvars
    /\ UNCHANGED appvars

QueueFull_OffByOne(q) == Len(q) > QUEUE_SIZE

\* asyncio.Queue(maxsize=QUEUE_SIZE).full(), the test put_nowait makes (async_logger.py:71, 149)
QueueFull(q) == Len(q) >= QUEUE_SIZE

queue_log_call_DropsOldest ==
    /\ next_id <= MaxEntries
    /\ next_id' = next_id + 1
    /\ IF _log_queue = <<>>
       THEN /\ qlog_ret' = Append(qlog_ret, FALSE)
            /\ UNCHANGED <<_log_queue, accepted>>
       ELSE IF ~QueueFull(Items)
       THEN /\ _log_queue' = <<Append(Items, next_id)>>
            /\ accepted' = accepted \cup {next_id}
            /\ qlog_ret' = Append(qlog_ret, TRUE)
       ELSE /\ _log_queue' = <<Append(Tail(Items), next_id)>>
            /\ accepted' = accepted \cup {next_id}
            /\ qlog_ret' = Append(qlog_ret, FALSE)
    /\ UNCHANGED <<_worker_task, wpc, batch, since_flush, spc, writes, consumed, init_id,
                   sd_accepted, sd_queue, sd_returned>>
    /\ UNCHANGED <<workers, reinit>>

\* async_logger.py:111-153: one call of queue_log, which does not suspend
queue_log_call ==
    /\ next_id <= MaxEntries
    /\ next_id' = next_id + 1
    /\ IF _log_queue = <<>>
       THEN /\ qlog_ret' = Append(qlog_ret, FALSE)
            /\ UNCHANGED <<_log_queue, accepted>>
       ELSE IF ~QueueFull(Items)
       THEN /\ _log_queue' = <<Append(Items, next_id)>>
            /\ accepted' = accepted \cup {next_id}
            /\ qlog_ret' = Append(qlog_ret, TRUE)
       ELSE /\ qlog_ret' = Append(qlog_ret, FALSE)
            /\ UNCHANGED <<_log_queue, accepted>>
    /\ UNCHANGED <<_worker_task, wpc, batch, since_flush, spc, writes, consumed, init_id,
                   sd_accepted, sd_queue, sd_returned>>
    /\ UNCHANGED <<workers, reinit>>

\* queue_log called by a request handler
queue_log ==
    /\ queue_log_call
    /\ UNCHANGED rlvars
    /\ UNCHANGED appvars

\* async_logger.py:203-229: a call of _batch_write with a non-empty batch
BatchWriteCall(b, by) == Append(writes, [batch |-> b, by |-> by, st |-> "inflight"])

\* the _batch_write in flight for `by` ends with outcome st
BatchWriteEnd(by, st) ==
    [i \in 1..Len(writes) |->
        IF writes[i].by = by /\ writes[i].st = "inflight"
        THEN [writes[i] EXCEPT !.st = st] ELSE writes[i]]

WorkerOnTimeout_FlushesEmpty ==
    /\ writes' = BatchWriteCall(batch, "worker")
    /\ wpc' = "write"
    /\ UNCHANGED <<_log_queue, batch, consumed>>

\* async_logger.py:181-187: wait_for raised TimeoutError
WorkerOnTimeout ==
    IF batch # <<>>
    THEN /\ writes' = BatchWriteCall(batch, "worker")
         /\ wpc' = "write"
         /\ UNCHANGED <<_log_queue, batch, consumed>>
    ELSE /\ wpc' = "top"
         /\ UNCHANGED <<_log_queue, batch, writes, consumed>>

WorkerOnEntry_FlushesLate ==
    LET newbatch == Append(batch, Head(Items)) IN
    /\ _log_queue' = <<Tail(Items)>>
    /\ batch' = newbatch
    /\ consumed' = TRUE
    /\ IF Len(newbatch) > BATCH_SIZE
       THEN /\ writes' = BatchWriteCall(newbatch, "worker")
            /\ wpc' = "write"
       ELSE /\ wpc' = "top"
            /\ UNCHANGED writes

\* async_logger.py:176-180, 189-193: wait_for returned the next entry
WorkerOnEntry ==
    LET newbatch == Append(batch, Head(Items)) IN
    /\ _log_queue' = <<Tail(Items)>>
    /\ batch' = newbatch
    /\ consumed' = TRUE
    /\ IF Len(newbatch) >= BATCH_SIZE
       THEN /\ writes' = BatchWriteCall(newbatch, "worker")
            /\ wpc' = "write"
       ELSE /\ wpc' = "top"
            /\ UNCHANGED writes

\* async_logger.py:167-180: one pass of the loop up to wait_for.  wait_for with a
\* timeout <= 0 cancels the get() it was given before that coroutine has run and raises
\* TimeoutError, whatever the queue holds; with a positive timeout, get() returns the
\* head of a non-empty queue, and otherwise the worker stays suspended.
WorkerLoop ==
    /\ wpc = "top"
    /\ spc # "await_worker"
    /\ LET wait_time == Max(0, FLUSH_INTERVAL - since_flush) IN
       IF wait_time <= 0
       THEN WorkerOnTimeout
       ELSE IF Items # <<>>
       THEN WorkerOnEntry
       ELSE /\ wpc' = "waiting"
            /\ UNCHANGED <<_log_queue, batch, writes, consumed>>
    /\ UNCHANGED <<_worker_task, since_flush, spc, next_id, accepted, qlog_ret, init_id,
                   sd_accepted, sd_queue, sd_returned>>
    /\ UNCHANGED <<workers, reinit>>
    /\ UNCHANGED rlvars
    /\ UNCHANGED appvars

\* the suspended get() is woken by a put
WorkerWake ==
    /\ wpc = "waiting"
    /\ spc # "await_worker"
    /\ Items # <<>>
    /\ WorkerOnEntry
    /\ UNCHANGED <<_worker_task, since_flush, spc, next_id, accepted, qlog_ret, init_id,
                   sd_accepted, sd_queue, sd_returned>>
    /\ UNCHANGED <<workers, reinit>>
    /\ UNCHANGED rlvars
    /\ UNCHANGED appvars

\* the timeout of the suspended wait_for expires
WorkerTimeout ==
    /\ wpc = "waiting"
    /\ spc # "await_worker"
    /\ since_flush >= FLUSH_INTERVAL
    /\ WorkerOnTimeout
    /\ UNCHANGED <<_worker_task, since_flush, spc, next_id, accepted, qlog_ret, init_id,
                   sd_accepted, sd_queue, sd_returned>>
    /\ UNCHANGED <<workers, reinit>>
    /\ UNCHANGED rlvars
    /\ UNCHANGED appvars

WorkerWriteDone_RetriesFailedBatch(ok) ==
    /\ wpc = "write"
    /\ spc # "await_worker"
    /\ writes' = BatchWriteEnd("worker", IF ok THEN "ok" ELSE "failed")
    /\ batch' = IF ok THEN <<>> ELSE batch
    /\ since_flush' = 0
    /\ wpc' = "top"
    /\ UNCHANGED <<_log_queue, _worker_task, spc, next_id, accepted, qlog_ret, consumed,
                   init_id, sd_accepted, sd_queue, sd_returned>>
    /\ UNCHANGED <<workers, reinit>>
    /\ UNCHANGED rlvars
    /\ UNCHANGED appvars

\* async_logger.py:184-186, 191-193 with 229-235: the worker's _batch_write ends, the
\* commit having succeeded or raised; either way the batch is dropped and the timer reset
WorkerWriteDone(ok) ==
    /\ wpc = "write"
    /\ spc # "await_worker"
    /\ writes' = BatchWriteEnd("worker", IF ok THEN "ok" ELSE "failed")
    /\ batch' = <<>>
    /\ since_flush' = 0
    /\ wpc' = "top"
    /\ UNCHANGED <<_log_queue, _worker_task, spc, next_id, accepted, qlog_ret, consumed,
                   init_id, sd_accepted, sd_queue, sd_returned>>
    /\ UNCHANGED <<workers, reinit>>
    /\ UNCHANGED rlvars
    /\ UNCHANGED appvars

\* async_logger.py:195-197: task.cancel() makes the worker's pending await raise
\* CancelledError, which no handler of _batch_write catches; the loop breaks
WorkerCancelled ==
    /\ spc = "await_worker"
    /\ wpc \in {"top", "waiting", "write"}
    /\ writes' = BatchWriteEnd("worker", "cancelled")
    /\ batch' = <<>>
    /\ wpc' = "done"
    /\ UNCHANGED <<_log_queue, _worker_task, since_flush, spc, next_id, accepted, qlog_ret,
                   consumed, init_id, sd_accepted, sd_queue, sd_returned>>
    /\ workers' = workers - 1
    /\ UNCHANGED reinit
    /\ UNCHANGED rlvars
    /\ UNCHANGED appvars

Drain_OnlyHead(q) == IF q = <<>> THEN <<>> ELSE <<Head(q)>>

\* async_logger.py:86-92: the get_nowait loop empties the queue into `remaining`
Drain(q) == q

\* async_logger.py:76-100: shutdown_logger up to its first await
shutdown_logger ==
    /\ spc = "idle"
    /\ IF _log_queue = <<>>
       THEN UNCHANGED <<_log_queue, spc, writes, consumed, sd_accepted, sd_queue, sd_returned>>
       ELSE LET remaining == Drain(Items) IN
            /\ _log_queue' = <<SubSeq(Items, Len(remaining) + 1, Len(Items))>>
            /\ consumed' = (consumed \/ remaining # <<>>)
            /\ sd_accepted' = {e \in accepted : e >= init_id}
            /\ sd_queue' = Range(Items)
            /\ sd_returned' = FALSE
            /\ IF remaining # <<>>
               THEN /\ writes' = BatchWriteCall(remaining, "shutdown")
                    /\ spc' = "write"
               ELSE /\ spc' = "await_worker"
                    /\ UNCHANGED writes
    /\ UNCHANGED <<_worker_task, wpc, batch, since_flush, next_id, accepted, qlog_ret,
                   init_id>>
    /\ UNCHANGED <<workers, reinit>>
    /\ UNCHANGED rlvars
    /\ UNCHANGED appvars

\* async_logger.py:96-102: the final _batch_write ends; the worker is cancelled and awaited
ShutdownWriteDone(ok) ==
    /\ spc = "write"
    /\ writes' = BatchWriteEnd("shutdown", IF ok THEN "ok" ELSE "failed")
    /\ spc' = "await_worker"
    /\ UNCHANGED <<_log_queue, _worker_task, wpc, batch, since_flush, next_id, accepted,
                   qlog_ret, consumed, init_id, sd_accepted, sd_queue, sd_returned>>
    /\ UNCHANGED <<workers, reinit>>
    /\ UNCHANGED rlvars
    /\ UNCHANGED appvars

ShutdownFinish_AbandonsWorker ==
    /\ spc = "await_worker"
    /\ _log_queue' = <<>>
    /\ _worker_task' = "None"
    /\ wpc' = "none"
    /\ spc' = "idle"
    /\ sd_returned' = TRUE
    /\ UNCHANGED <<batch, since_flush, writes, next_id, accepted, qlog_ret, consumed,
                   init_id, sd_accepted, sd_queue>>
    /\ reinit' = FALSE
    /\ UNCHANGED workers
    /\ UNCHANGED rlvars
    /\ UNCHANGED appvars

\* async_logger.py:102-108: the awaited worker has ended; the globals are cleared
ShutdownFinish ==
    /\ spc = "await_worker"
    /\ wpc = "done"
    /\ _log_queue' = <<>>
    /\ _worker_task' = "None"
    /\ wpc' = "none"
    /\ spc' = "idle"
    /\ sd_returned' = TRUE
    /\ UNCHANGED <<batch, since_flush, writes, next_id, accepted, qlog_ret, consumed,
                   init_id, sd_accepted, sd_queue>>
    /\ reinit' = FALSE
    /\ UNCHANGED workers
    /\ UNCHANGED rlvars
    /\ UNCHANGED appvars

(***************************************************************************)
(* backend/main.py: the /v1/check handler                                  *)
(*                                                                         *)
(* A JSON value is a record whose field t tells which of the other fields  *)
(* holds it: b for "bool", s for "str", d (keys to values) for "dict",     *)
(* l (a sequence of values) for "list".                                    *)
(***************************************************************************)
JBool(b) == [t |-> "bool", b |-> b, s |-> "", d |-> <<>>, l |-> <<>>]
JStr(x) == [t |-> "str", b |-> FALSE, s |-> x, d |-> <<>>, l |-> <<>>]
JDict(f) == [t |-> "dict", b |-> FALSE, s |-> "", d |-> f, l |-> <<>>]
JList(q) == [t |-> "list", b |-> FALSE, s |-> "", d |-> <<>>, l |-> q]

\* the keys requests put in their metadata, and those they nest below the top level
FlagKeys == {"contains_personal_data", "is_external_model", "uses_external_model"}
NestKeys == {"Content", "max_tokens"}
MetaKeys == FlagKeys \cup NestKeys \cup {"prompt"}

\* the values of depth <= n: a boolean, and one-entry dicts and lists of such values
RECURSIVE Values(_)
Values(n) ==
    IF n = 0
    THEN {JBool(TRUE)}
    ELSE LET V == Values(n - 1)
         IN  V \cup {JDict(k :> x) : k \in NestKeys, x \in V} \cup {JList(<<x>>) : x \in V}

\* the metadata of the requests: none, one risk flag, one other key with a value of
\* depth <= MaxDepth, or two of the risk flags
Metadatas ==
    {JDict(<<>>)}
        \cup {JDict(k :> JBool(b)) : k \in FlagKeys, b \in BOOLEAN}
        \cup {JDict(k :> x) : k \in MetaKeys \ FlagKeys, x \in Values(MaxDepth)}
        \cup {JDict((k1 :> JBool(b1)) @@ (k2 :> JBool(b2))) :
                 k1 \in {"contains_personal_data"},
                 k2 \in {"is_external_model", "uses_external_model"},
                 b1 \in BOOLEAN, b2 \in BOOLEAN}

\* main.py:40-43 and 86: body.dict() of a CheckRequest
BodyDict(metadata) ==
    JDict([model |-> JStr("gpt-4"), operation |-> JStr("chat_completion"),
           metadata |-> metadata])

\* str.lower() on the keys above
lower(k) == IF k = "Content" THEN "content" ELSE k

\* main.py:21
FORBIDDEN_FIELDS == {"prompt", "text", "input", "message", "messages", "content"}

RECURSIVE contains_forbidden_fields_CaseSensitive(_)
contains_forbidden_fields_CaseSensitive(obj) ==
    IF obj.t = "dict"
    THEN \E k \in DOMAIN obj.d :
            k \in FORBIDDEN_FIELDS \/ contains_forbidden_fields_CaseSensitive(obj.d[k])
    ELSE IF obj.t = "list"
    THEN \E i \in 1..Len(obj.l) : contains_forbidden_fields_CaseSensitive(obj.l[i])
    ELSE FALSE

\* main.py:23-38
RECURSIVE contains_forbidden_fields(_)
contains_forbidden_fields(obj) ==
    IF obj.t = "dict"
    THEN \E k \in DOMAIN obj.d :
            lower(k) \in FORBIDDEN_FIELDS \/ contains_forbidden_fields(obj.d[k])
    ELSE IF obj.t = "list"
    THEN \E i \in 1..Len(obj.l) : contains_forbidden_fields(obj.l[i])
    ELSE FALSE

\* Python's truth value of metadata.get(k): None when the key is missing
Truthy(metadata, k) ==
    IF k \notin DOMAIN metadata.d
    THEN FALSE
    ELSE LET x == metadata.d[k]
         IN  CASE x.t = "bool" -> x.b
               [] x.t = "str"  -> x.s # ""
               [] x.t = "dict" -> DOMAIN x.d # {}
               [] x.t = "list" -> Len(x.l) > 0

\* main.py:96-110: the response computed from the metadata
Score(metadata) ==
    LET personal   == Truthy(metadata, "contains_personal_data")
        external   == Truthy(metadata, "is_external_model")
        risk_score == (IF personal THEN 70 ELSE 0) + (IF external THEN 50 ELSE 0)
        reason     == IF external THEN "external_model_detected"
                      ELSE IF personal THEN "contains_personal_data"
                      ELSE "ok"
    IN  [allowed |-> risk_score < 50, risk_score |-> risk_score, reason |-> reason]

\* the keys of a value at every nesting depth
RECURSIVE AllKeys(_)
AllKeys(obj) ==
    IF obj.t = "dict"
    THEN (DOMAIN obj.d) \cup UNION {AllKeys(obj.d[k]) : k \in DOMAIN obj.d}
    ELSE IF obj.t = "list"
    THEN UNION {AllKeys(obj.l[i]) : i \in 1..Len(obj.l)}
    ELSE {}

\* what a request sent, as the properties below speak of it
Sent(metadata) ==
    [forbidden     |-> \E k \in AllKeys(metadata) : lower(k) \in FORBIDDEN_FIELDS,
     forbidden_top |-> \E k \in DOMAIN metadata.d : lower(k) \in FORBIDDEN_FIELDS,
     personal      |-> "contains_personal_data" \in DOMAIN metadata.d
                          /\ metadata.d["contains_personal_data"] = JBool(TRUE),
     uses_external |-> "uses_external_model" \in DOMAIN metadata.d
                          /\ metadata.d["uses_external_model"] = JBool(TRUE),
     is_external   |-> "is_external_model" \in DOMAIN metadata.d
                          /\ metadata.d["is_external_model"] = JBool(TRUE)]

\* the record of one served request
Served(metadata, d, status, scored, response, qlog) ==
    [sent |-> Sent(metadata), rl_allowed |-> d.allowed, status_code |-> status,
     scored |-> scored, response |-> response, qlog |-> qlog]

Reject_LogsFirst(rec) ==
    /\ last_check' = rec
    /\ queue_log_call

\* main.py:83-90: an HTTPException leaves the handler before the logging stage
Reject(rec) ==
    /\ last_check' = rec
    /\ UNCHANGED logvars

AfterLogging_FailsOnError(resp, outcome) ==
    IF outcome = "raised"
    THEN [status_code |-> 500, response |-> <<>>]
    ELSE [status_code |-> 200, response |-> <<resp>>]

\* main.py:114-133: whatever the call of queue_log did, the handler returns the response
\* it computed before
AfterLogging(resp, outcome) == [status_code |-> 200, response |-> <<resp>>]

\* the value queue_log is about to return (async_logger.py:131-153)
QueueLogReturns ==
    IF _log_queue = <<>> THEN "False" ELSE IF QueueFull(Items) THEN "False" ELSE "True"

\* main.py:66-133: one /v1/check request of an authenticated caller, served without
\* the distributed backend: allow_request then takes the in-memory branch
\* (rate_limit.py:163-198) and nothing in the handler suspends.  `raises` is an
\* exception raised inside the call of queue_log.
check(id, metadata, raises) ==
    /\ ~_redis_available
    /\ LET key == get_rate_limit_key(id)
           d   == MemoryDecide(_rate_limit_state, key, limit, window, now)
           err == check_rate_limit(limit, d)
           resp == Score(metadata)
       IN  /\ _rate_limit_state' = d.state
           /\ IF err.raised
              THEN Reject(Served(metadata, d, err.status_code, <<>>, <<>>, "none"))
              ELSE IF contains_forbidden_fields(BodyDict(metadata))
              THEN Reject(Served(metadata, d, 400, <<>>, <<>>, "none"))
              ELSE IF raises
              THEN LET out == AfterLogging(resp, "raised") IN
                   /\ next_id <= MaxEntries
                   /\ next_id' = next_id + 1
                   /\ last_check' = Served(metadata, d, out.status_code, <<resp>>,
                                           out.response, "raised")
                   /\ UNCHANGED <<_log_queue, _worker_task, wpc, batch, since_flush, spc,
                                  writes, accepted, qlog_ret, consumed, init_id,
                                  sd_accepted, sd_queue, sd_returned, workers, reinit>>
              ELSE LET out == AfterLogging(resp, QueueLogReturns) IN
                   /\ queue_log_call
                   /\ last_check' = Served(metadata, d, out.status_code, <<resp>>,
                                           out.response, QueueLogReturns)
    /\ UNCHANGED <<now, REDIS_URL, limit, window, redis_status, redis_db, _redis_client,
                   _redis_available, pc, tkey, tnow, hist, overlapped>>
    /\ UNCHANGED <<logs_dropped_total, cleanup_call, outage_warnings>>

LogNext ==
    \/ LoopTick
    \/ init_logger
    \/ queue_log
    \/ WorkerLoop
    \/ WorkerWake
    \/ WorkerTimeout
    \/ \E ok \in BOOLEAN : WorkerWriteDone(ok)
    \/ WorkerCancelled
    \/ shutdown_logger
    \/ \E ok \in BOOLEAN : ShutdownWriteDone(ok)
    \/ ShutdownFinish

RLNext ==
    \/ Tick
    \/ RedisEnv
    \/ get_redis
    \/ \E t \in Tasks, id \in ApiKeyIds : AllowStart(t, id)
    \/ \E t \in Tasks : RedisEval(t)

\* nothing has been served, counted or swept
AppInit ==
    /\ last_check = Served(JDict(<<>>), [allowed |-> FALSE], 0, <<>>, <<>>, "none")
    /\ logs_dropped_total = 0
    /\ cleanup_call = [n |-> 0, max_age |-> 0]
    /\ outage_warnings = 0

Init == RLInit /\ LogInit /\ AppInit

\* the rate limiter with its periodic sweep
CleanupNext ==
    \/ RLNext
    \/ \E max_age \in MaxAges : cleanup_old_buckets(max_age)

CleanupSpec == Init /\ [][CleanupNext]_vars

\* the rate limiter alone
RLSpec == Init /\ [][RLNext]_vars

\* the audit logger alone, under one configuration of the rate limiter
LogSpecInit == Init /\ ~REDIS_URL /\ limit = MaxLimit /\ window = MaxWindow
LogSpec == LogSpecInit /\ [][LogNext]_vars

\* the /v1/check handler serving the requests of one API key, with the logger started
\* at startup (main.py:136-139) and no worker scheduled yet
CheckNext ==
    \/ Tick
    \/ init_logger
    \/ \E metadata \in Metadatas, raises \in BOOLEAN :
           check(CHOOSE id \in ApiKeyIds : TRUE, metadata, raises)

CheckSpec == LogSpecInit /\ [][CheckNext]_vars

\* the audit logger on a running event loop: the loop's clock advances, a worker that
\* can be resumed is resumed, and a commit in flight ends
FairLogSpec ==
    /\ LogSpecInit
    /\ [][LogNext]_vars
    /\ WF_vars(LoopTick)
    /\ WF_vars(WorkerLoop)
    /\ WF_vars(WorkerWake)
    /\ WF_vars(WorkerTimeout)
    /\ WF_vars(\E ok \in BOOLEAN : WorkerWriteDone(ok))

(***************************************************************************)
(* Properties of the rate limiter                                          *)
(***************************************************************************)
Last(q) == q[Len(q)]
Ats(k) == {hist[k][i].at : i \in 1..Len(hist[k])}
Backends(k) == {hist[k][i].backend : i \in 1..Len(hist[k])}
Admitted(k) == Cardinality({i \in 1..Len(hist[k]) : hist[k][i].allowed})

\* every decision for k was taken on one backend, for requests less than one window apart
OneWindowOneBackend(k) ==
    /\ Cardinality(Backends(k)) = 1
    /\ \A a, b \in Ats(k) : a - b < window

\* C1: when the calls for a fresh key are strictly sequential and fall in one window,
\* call number i is allowed exactly when i <= limit (limit >= 1), on the redis path as
\* on the memory path.
C1_SequentialAdmitsExactlyLimit ==
    (limit >= 1 /\ ~overlapped) =>
        \A k \in Keys : OneWindowOneBackend(k) =>
            \A i \in 1..Len(hist[k]) : hist[k][i].allowed <=> (i <= limit)

\* C2: when calls for one fresh key have been in flight together inside one window,
\* exactly min(limit, N) of the N calls are allowed, on either backend.
C2_ConcurrentAdmitsExactlyLimit ==
    (limit >= 1 /\ overlapped) =>
        \A k \in Keys : OneWindowOneBackend(k) =>
            Admitted(k) = Min(limit, Len(hist[k]))

C8_ReachableStoreDecides ==
    [][\A k \in Keys :
          (REDIS_URL /\ redis_status = "up" /\ Len(hist'[k]) > Len(hist[k])) =>
              Last(hist'[k]).backend = "redis"]_vars

\* C9: once a call has fallen back to memory after the client was created (failed ping
\* or failed script call), a call that starts while the store is reachable attempts
\* the redis backend: it is not decided in memory without an EVAL.
C9_FailureNotCached ==
    [][(/\ REDIS_URL
        /\ _redis_client = "client"
        /\ \E k \in Keys : "memory" \in Backends(k)
        /\ redis_status = "up")
       => ~(pc' = pc /\ \E k \in Keys : Len(hist'[k]) > Len(hist[k]))]_vars

\* C10: a call whose api_key_id is empty is denied, whatever the bucket, limit or backend.
C10_EmptyKeyDenied ==
    \A i \in 1..Len(hist[get_rate_limit_key("")]) :
        ~hist[get_rate_limit_key("")][i].allowed

\* decision j is the first one for k, after the denied decision i and on i's backend,
\* whose call was made at or after the reset time that i reported
FirstAfterReset(k, i, j) ==
    /\ i < j
    /\ ~hist[k][i].allowed
    /\ hist[k][j].backend = hist[k][i].backend
    /\ hist[k][j].at >= hist[k][i].reset_at
    /\ \A m \in (i + 1)..(j - 1) : hist[k][m].at < hist[k][i].reset_at

\* decision j is allowed, reports limit-1 remaining and a window that starts at its `now`
StartsNewWindow(k, j) ==
    /\ hist[k][j].allowed
    /\ hist[k][j].remaining = limit - 1
    /\ hist[k][j].reset_at = hist[k][j].at + window

AdmittedUpTo(k, i) == Cardinality({m \in 1..i : hist[k][m].allowed})

\* C12: when the sequential calls for a fresh key fall in one window and are decided by
\* one backend, every decision reports reset_at = (time of the first request) + window,
\* a denied one reports remaining = 0 and an allowed one remaining = limit - count.
C12_OneResetPerWindow ==
    ~overlapped =>
        \A k \in Keys : OneWindowOneBackend(k) =>
            \A i \in 1..Len(hist[k]) :
                /\ hist[k][i].reset_at = hist[k][1].at + window
                /\ ~hist[k][i].allowed => hist[k][i].remaining = 0
                /\ hist[k][i].allowed => hist[k][i].remaining = limit - AdmittedUpTo(k, i)

\* C24: check_rate_limit raises exactly when allow_request returned allowed = False; the
\* error is a 429 whose X-RateLimit-* headers carry the limit and the decision's
\* remaining, which is 0, its reset_at and its backend; an allowed call raises nothing.
C24_RaisesExactlyOnDenial ==
    \A k \in Keys : \A i \in 1..Len(hist[k]) :
        LET h == hist[k][i] IN
        /\ h.http.raised <=> ~h.allowed
        /\ h.allowed => h.http = NoError
        /\ ~h.allowed =>
              /\ h.http.status_code = 429
              /\ h.http.headers.Limit = str(limit)
              /\ h.http.headers.Remaining = "0"
              /\ h.http.headers.Reset = str(h.reset_at)
              /\ h.http.headers.Backend = h.backend

\* C24 witness: a key got an allowed call that took the last token, which raised
\* nothing, and then a denied one, which raised the 429
C24_Witness ==
    \E k \in Keys : \E i, j \in 1..Len(hist[k]) :
        /\ i < j
        /\ hist[k][i].allowed /\ hist[k][i].remaining = 0 /\ ~hist[k][i].http.raised
        /\ ~hist[k][j].allowed /\ hist[k][j].http.raised

\* the part of a store (the dict, or the distributed store's keys) that belongs to key k
Only(store, k) == [x \in (DOMAIN store) \cap {k} |-> store[x]]

\* the step returns a decision for key k
DecidesFor(k) == Len(hist'[k]) = Len(hist[k]) + 1

\* the decision a backend takes when it holds nothing but k's bucket
DecisionAlone(k, h) ==
    IF h.backend = "memory"
    THEN LET d == MemoryDecide(Only(_rate_limit_state, k), k, limit, window, h.at)
         IN  [entry |-> HistEntry(h.at, d), memory |-> d.state,
              redis |-> Only(redis_db', k)]
    ELSE LET r == RATE_LIMIT_LUA(Only(redis_db, k), k, limit, window, h.at, now)
         IN  [entry |-> HistEntry(h.at, RedisDecision(r.ret)),
              memory |-> Only(_rate_limit_state, k), redis |-> r.db]

\* C27: the limits of different keys are independent: a step changes the bucket of a
\* key, in the dict or in the distributed store, only by deciding a call for that key,
\* and the decision and the new bucket are those the backend would produce if it held
\* no bucket but that key's (they depend on the key's bucket, limit, window and time).
C27_KeysIndependent ==
    [][\A k \in Keys :
          /\ (Only(_rate_limit_state', k) # Only(_rate_limit_state, k)
                  \/ Only(redis_db', k) # Only(redis_db, k)) => DecidesFor(k)
          /\ DecidesFor(k) =>
                LET alone == DecisionAlone(k, Last(hist'[k])) IN
                /\ Last(hist'[k]) = alone.entry
                /\ Only(_rate_limit_state', k) = alone.memory
                /\ Only(redis_db', k) = alone.redis]_vars

\* C27 witness: two keys hold buckets in the same store and have been decided
\* differently at the same time
C27_Witness ==
    \E a, b \in Keys :
        /\ a # b
        /\ ({a, b} \subseteq DOMAIN _rate_limit_state \/ {a, b} \subseteq DOMAIN redis_db)
        /\ \E i \in 1..Len(hist[a]), j \in 1..Len(hist[b]) :
              /\ hist[a][i].at = hist[b][j].at
              /\ hist[a][i].backend = hist[b][j].backend
              /\ ~hist[a][i].allowed
              /\ hist[b][j].allowed

\* C30: with a limit L >= 1, every bucket of the dict has 1 <= count <= L and a
\* windowStart that is not later than the current time.
C30_BucketWithinLimit ==
    limit >= 1 =>
        \A k \in DOMAIN _rate_limit_state :
            /\ _rate_limit_state[k][1] >= 1
            /\ _rate_limit_state[k][1] <= limit
            /\ _rate_limit_state[k][2] <= now

\* C30 witness: a bucket is full, a call for it has been denied, and time has passed
C30_Witness ==
    /\ limit >= 2
    /\ \E k \in DOMAIN _rate_limit_state :
          /\ _rate_limit_state[k][1] = limit
          /\ _rate_limit_state[k][2] < now
          /\ \E i \in 1..Len(hist[k]) : ~hist[k][i].allowed /\ hist[k][i].backend = "memory"

\* the calls for k that were admitted by `backend` with their `now` in t0 .. t0 + window - 1
AdmittedIn(k, t0, backend) ==
    {i \in 1..Len(hist[k]) :
        /\ hist[k][i].allowed
        /\ hist[k][i].backend = backend
        /\ hist[k][i].at >= t0
        /\ hist[k][i].at < t0 + window}

\* C31: within one window, the admissions for one key never exceed limit in total, also
\* when some calls were decided by the distributed store and others by the dict after
\* a failed EVAL (each backend having kept to the limit by itself).
C31_MixedBackendsWithinLimit ==
    \A k \in Keys, t0 \in 0..MaxTime :
        LET redis  == Cardinality(AdmittedIn(k, t0, "redis"))
            memory == Cardinality(AdmittedIn(k, t0, "memory"))
        IN  (redis <= limit /\ memory <= limit) => redis + memory <= limit

\* C34: a denied decision changes no state: a call denied by the dict leaves the dict as
\* it was, and a call denied by the distributed store leaves the store's keys, their
\* values and expiry times as they were.
C34_DeniedChangesNoState ==
    [][\A k \in Keys :
          (DecidesFor(k) /\ ~Last(hist'[k]).allowed) =>
              /\ _rate_limit_state' = _rate_limit_state
              /\ Last(hist'[k]).backend = "redis" => redis_db' = redis_db]_vars

\* C35: while the distributed store keeps failing, the calls of allow_request log the
\* fallback warning at most once in all, not once per call.
C35_FallbackWarnedOnce ==
    outage_warnings <= 1

\* C36: for every limit >= 0 the reported remaining is never negative and at most
\* limit calls for a key are admitted in one window; with limit 0 the first call for a
\* fresh key is denied.
C36_ZeroLimitAdmitsNothing ==
    \A k \in Keys :
        /\ \A i \in 1..Len(hist[k]) : hist[k][i].remaining >= 0
        /\ \A t0 \in 0..MaxTime :
               Cardinality(AdmittedIn(k, t0, "redis") \cup AdmittedIn(k, t0, "memory")) <= limit
        /\ (limit = 0 /\ hist[k] # <<>>) => ~hist[k][1].allowed

\* the decisions for k that the script has reported
Reported(k) == {i \in 1..Len(hist[k]) : hist[k][i].backend = "redis"}

\* the times at which a call that is running or yet to come can take its `now`
LaterTimes == {tnow[t] : t \in Busy} \cup (now..(MaxTime + MaxWindow))

\* what a call for key k taking its `now` at t gets from the dict, and the bucket it leaves
LocalOutcome(state, k, t) ==
    LET d == MemoryDecide(state, k, limit, window, t)
    IN  [allowed |-> d.allowed, remaining |-> d.remaining, reset_at |-> d.reset_at,
         bucket |-> d.state[k]]

\* C37: a cleanup_old_buckets(max_age) with max_age >= window changes no later decision
\* of the dict: for every key and every time of a later call, the dict after the sweep
\* gives the decision (allowed, remaining, reset_at) the dict before the sweep would have
\* given, and leaves the key's bucket as it would have been; so the results of every
\* later sequence of calls are those of the same sequence without the sweep.
C37_CleanupChangesNoDecision ==
    [][(cleanup_call'.n # cleanup_call.n /\ cleanup_call'.max_age >= window) =>
          \A k \in Keys, t \in LaterTimes :
              LocalOutcome(_rate_limit_state', k, t) = LocalOutcome(_rate_limit_state, k, t)]_vars

\* C37 witness: a sweep with max_age >= window has removed the bucket of a key that the
\* dict had decided
C37_Witness ==
    /\ cleanup_call.n = 1
    /\ cleanup_call.max_age >= window
    /\ \E k \in Keys :
          /\ k \notin DOMAIN _rate_limit_state
          /\ \E i \in 1..Len(hist[k]) : hist[k][i].backend = "memory"

\* C38: in the distributed store a bucket's key does not expire before the reset time
\* the script last reported for that bucket.
C38_TTLCoversResetTime ==
    \A k \in Keys :
        Reported(k) # {} =>
            LET last == CHOOSE i \in Reported(k) : \A j \in Reported(k) : j <= i
            IN  /\ k \in DOMAIN redis_db
                /\ redis_db[k].exp >= hist[k][last].reset_at

\* the age of key's bucket in the dict
BucketAge(state, key) == now - state[key][2]

\* C25: when cleanup_old_buckets(max_age) returns, whatever the backend mode, the dict
\* holds no bucket whose windowStart is more than max_age seconds old, and every bucket
\* that is not older than max_age is unchanged.
C25_CleanupRemovesOldBuckets ==
    [][cleanup_call'.n # cleanup_call.n =>
          LET max_age == cleanup_call'.max_age IN
          /\ \A key \in DOMAIN _rate_limit_state' :
                 BucketAge(_rate_limit_state', key) <= max_age
          /\ \A key \in DOMAIN _rate_limit_state :
                 BucketAge(_rate_limit_state, key) <= max_age =>
                     /\ key \in DOMAIN _rate_limit_state'
                     /\ _rate_limit_state'[key] = _rate_limit_state[key]]_vars

(***************************************************************************)
(* Properties of the audit logger                                          *)
(***************************************************************************)
\* the entries passed to some _batch_write call
PassedToWrite == UNION {Range(writes[i].batch) : i \in 1..Len(writes)}

\* the entries of the _batch_write calls that ended with outcome st
WrittenWith(st) == UNION {Range(writes[i].batch) : i \in {j \in 1..Len(writes) : writes[j].st = st}}

\* C3: when shutdown_logger has returned, every entry accepted for this queue before it
\* was invoked, those in the worker's partial batch included, has been passed to
\* _batch_write.
C3_ShutdownDropsNothing ==
    sd_returned => sd_accepted \subseteq PassedToWrite

\* C4: when shutdown_logger has returned, each of the K entries that sat in the queue
\* when it was invoked is in a completed _batch_write call, a successful one unless
\* the durable write failed.
C4_QueuedAtShutdownAreWritten ==
    sd_returned => sd_queue \subseteq (WrittenWith("ok") \cup WrittenWith("failed"))

\* C4 witness: shutdown_logger returned after finding two entries in the queue, and
\* both were committed
C4_Witness ==
    /\ sd_returned
    /\ Cardinality(sd_queue) >= 2
    /\ sd_queue \subseteq WrittenWith("ok")

\* an entry waiting in the queue or in the worker's batch
Pending(e) == (_log_queue # <<>> /\ e \in Range(Items)) \/ e \in Range(batch)

\* C5: while the worker runs (shutdown_logger is not under way), every entry waiting in
\* the queue or in the worker's batch is eventually passed to a _batch_write call, also
\* an entry enqueued after the worker timed out with an empty batch.
C5_AcceptedEventuallyWritten ==
    \A e \in 1..MaxEntries : Pending(e) ~> (e \in PassedToWrite \/ spc # "idle")

\* C6: the queue never holds more than QUEUE_SIZE entries, and while nothing has been
\* taken out of an initialised queue, call number i of queue_log returns True exactly
\* when i <= QUEUE_SIZE.
C6_EnqueueBounded ==
    _log_queue # <<>> =>
        /\ Len(Items) <= QUEUE_SIZE
        /\ ~consumed => \A i \in 1..Len(qlog_ret) : qlog_ret[i] <=> (i <= QUEUE_SIZE)

\* C6 witness: capacity+1 calls on an untouched queue, the last one rejected
C6_Witness ==
    /\ _log_queue # <<>>
    /\ ~consumed
    /\ Len(qlog_ret) = QUEUE_SIZE + 1
    /\ ~Last(qlog_ret)

\* the _batch_write calls that have returned
Ended(i) == writes[i].st # "inflight"

WorkerWriteFailed == \E i \in 1..Len(writes) : writes[i].by = "worker" /\ writes[i].st = "failed"

\* the step in which the worker's _batch_write returns after a failed commit
FailedWriteReturns ==
    /\ wpc = "write"
    /\ ~WorkerWriteFailed
    /\ WorkerWriteFailed'

\* C14: a failed durable write does not end the worker: when its _batch_write returns
\* after a failure the worker task is still there at the top of its loop with an empty
\* batch and a restarted flush timer, and while shutdown_logger is not under way every
\* entry waiting in the queue after a failure is eventually passed to a later
\* _batch_write call.
C14_WorkerSurvivesFailedWrite ==
    /\ [][FailedWriteReturns =>
            /\ _worker_task' = "task"
            /\ wpc' = "top"
            /\ batch' = <<>>
            /\ since_flush' = 0]_vars
    /\ \A e \in 1..MaxEntries :
           (WorkerWriteFailed /\ Pending(e)) ~> (e \in PassedToWrite \/ spc # "idle")

\* C15: every _batch_write call, by a flush of the worker or by the final flush of
\* shutdown_logger, receives a non-empty batch of at most BATCH_SIZE entries.
C15_BatchSizeBounded ==
    \A i \in 1..Len(writes) :
        /\ Len(writes[i].batch) >= 1
        /\ Len(writes[i].batch) <= BATCH_SIZE

\* no entry waits in the queue or in the worker's batch
NothingPending == batch = <<>> /\ (_log_queue = <<>> \/ Items = <<>>)

\* C16: no _batch_write call is made for an empty batch: while no entry is waiting, no
\* step of the worker (its flush timeout included) or of shutdown_logger starts a write.
C16_NoEmptyWrite ==
    [][NothingPending => Len(writes') = Len(writes)]_vars

\* C16 witness: the flush interval has passed on a queue that never received an entry,
\* shutdown_logger has returned, and no write was made
C16_Witness ==
    /\ sd_returned
    /\ sd_accepted = {}
    /\ sd_queue = {}
    /\ since_flush >= FLUSH_INTERVAL
    /\ writes = <<>>

\* the step starts a _batch_write call of the worker
NewWorkerWrite == Len(writes') > Len(writes) /\ Last(writes').by = "worker"

\* the entries waiting in the queue and in the worker's batch
NumPending == Len(batch) + (IF _log_queue = <<>> THEN 0 ELSE Len(Items))

RECURSIVE StoreOrder(_)
StoreOrder(i) == IF i = 0 THEN <<>> ELSE StoreOrder(i - 1) \o writes[i].batch

\* C18: entries reach the durable store in the order in which they were enqueued (the
\* identifiers grow with the queue_log calls), across the flushes of the worker and the
\* final flush of shutdown_logger.
C18_WrittenInEnqueueOrder ==
    LET order == StoreOrder(Len(writes)) IN
    \A i, j \in 1..Len(order) : i < j => order[i] < order[j]

\* C19: the cancellation by shutdown_logger interrupts only a wait of the worker: a
\* _batch_write call of the worker that is in flight when the worker is cancelled runs
\* to completion, so that once the worker has ended each of its calls has committed or
\* failed.
C19_CancelSparesInFlightWrite ==
    wpc \in {"done", "none"} =>
        \A i \in 1..Len(writes) :
            writes[i].by = "worker" => writes[i].st \in {"ok", "failed"}

\* C20: init_logger is idempotent: a call on an initialised logger creates no queue and
\* no worker and leaves the queue, its contents and the worker as they are; in every
\* reachable state at most one worker task exists.
C20_InitLoggerIdempotent ==
    /\ [](workers <= 1)
    /\ [][(_log_queue # <<>> /\ init_logger) =>
              UNCHANGED <<_log_queue, _worker_task, workers, wpc, batch>>]_vars

\* C20 witness: init_logger was called on a logger whose queue holds entries, and the
\* entries and the one worker are still there
C20_Witness ==
    /\ reinit
    /\ _log_queue # <<>>
    /\ Len(Items) >= 2
    /\ workers = 1
    /\ _worker_task = "task"

\* the entries accepted for the current queue after shutdown_logger was invoked
AcceptedDuringShutdown == {e \in accepted : e >= init_id} \ sd_accepted

\* C32: an entry for which queue_log returned True while shutdown_logger was suspended,
\* in its final _batch_write or awaiting the cancelled worker, is passed to a
\* _batch_write call like every accepted entry: when shutdown_logger has returned,
\* no such entry is left unwritten.
C32_AcceptedDuringShutdownWritten ==
    (sd_returned /\ _log_queue = <<>>) => AcceptedDuringShutdown \subseteq PassedToWrite

\* shutdown_logger has returned and init_logger has not been called since
AfterShutdown == sd_returned /\ _log_queue = <<>>

\* C33: when shutdown_logger returns, the worker task has ended and the references to
\* the queue and to the worker are cleared; from then on queue_log returns False
\* without raising, and the next init_logger creates an empty queue and exactly one
\* worker.
C33_ShutdownLeavesLoggerStopped ==
    /\ [](AfterShutdown => (workers = 0 /\ _worker_task = "None" /\ wpc = "none"))
    /\ [][(spc = "await_worker" /\ spc' = "idle") => AfterShutdown']_vars
    /\ [][(AfterShutdown /\ next_id' # next_id) =>
              /\ qlog_ret' = Append(qlog_ret, FALSE)
              /\ accepted' = accepted
              /\ _log_queue' = <<>>]_vars
    /\ [][(AfterShutdown /\ _log_queue' # <<>>) =>
              /\ _log_queue' = << <<>> >>
              /\ _worker_task' = "task"
              /\ workers' = 1
              /\ wpc' = "top"]_vars

\* C33 witness: shutdown_logger returned for a queue that had accepted one entry, the
\* next entry was rejected by queue_log, and init_logger has then created a new empty
\* queue with one worker
C33_Witness ==
    /\ sd_returned
    /\ _log_queue = << <<>> >>
    /\ workers = 1
    /\ _worker_task = "task"
    /\ sd_accepted = {init_id - 2}
    /\ (init_id - 1) \notin accepted

(***************************************************************************)
(* Properties of the /v1/check handler                                     *)
(***************************************************************************)

\* the last request passed the rate limit and the forbidden-field validation
ReachedLogging ==
    /\ last_check.status_code # 0
    /\ last_check.rl_allowed
    /\ ~last_check.sent.forbidden

\* C21: when the queue is full, queue_log drops the newest entry: it returns False, the
\* entries already in the queue stay the same in the same order, and the caller of
\* /v1/check gets its response, with no error raised.
C21_FullQueueDropsNewest ==
    [][(/\ next_id' # next_id
        /\ _log_queue # <<>>
        /\ QueueFull(Items)
        /\ last_check'.qlog # "raised")
           => /\ qlog_ret' = Append(qlog_ret, FALSE)
              /\ _log_queue' = _log_queue
              /\ accepted' = accepted
              /\ last_check'.qlog = "False"
              /\ last_check'.status_code = 200
              /\ last_check'.response = last_check'.scored]_vars

\* C21 witness: a request was served while the queue was full, and queue_log returned False
C21_Witness ==
    /\ _log_queue # <<>>
    /\ Len(Items) = QUEUE_SIZE
    /\ Len(qlog_ret) > QUEUE_SIZE
    /\ ~qlog_ret[Len(qlog_ret)]
    /\ last_check.qlog = "False"
    /\ last_check.status_code = 200

\* C22: each entry that queue_log rejects because the queue is full adds exactly one to
\* the drop counter logs_dropped_total.
C22_DropCounterCountsRejections ==
    [][(/\ next_id' # next_id
        /\ _log_queue # <<>>
        /\ QueueFull(Items))
           => logs_dropped_total' = logs_dropped_total + 1]_vars

\* C23: a request that passed rate limiting and validation is answered with the
\* response computed from its metadata, whether queue_log accepted the entry, rejected
\* it (queue full or logger not initialised) or raised.
C23_ResponseIgnoresLogging ==
    ReachedLogging =>
        /\ last_check.qlog \in {"True", "False", "raised"}
        /\ last_check.status_code = 200
        /\ Len(last_check.scored) = 1
        /\ last_check.response = last_check.scored

\* C23 witness: queue_log raised while a request with a non-zero risk score was
\* served, and the request was answered with that score
C23_Witness ==
    /\ ReachedLogging
    /\ last_check.qlog = "raised"
    /\ last_check.status_code = 200
    /\ last_check.response # <<>>
    /\ last_check.response[1].risk_score > 0

C28_ForbiddenNeverEnqueued ==
    /\ [][next_id' # next_id => ~last_check'.sent.forbidden]_vars
    /\ [](last_check.sent.forbidden =>
              /\ last_check.qlog = "none"
              /\ last_check.response = <<>>
              /\ last_check.status_code = IF last_check.rl_allowed THEN 400 ELSE 429)

\* C28 witness: a request whose forbidden key is nested below the top level of the
\* metadata was rejected with 400 while the queue was taking entries
C28_Witness ==
    /\ last_check.sent.forbidden
    /\ ~last_check.sent.forbidden_top
    /\ last_check.status_code = 400
    /\ _log_queue # <<>>
    /\ ~QueueFull(Items)

\* C29: a request whose metadata sets uses_external_model to true is answered with
\* allowed = false and risk_score >= 50, and one that also sets contains_personal_data
\* with allowed = false and risk_score >= 100.
C29_ExternalModelBlocked ==
    (last_check.status_code = 200 /\ last_check.sent.uses_external) =>
        /\ ~last_check.response[1].allowed
        /\ last_check.response[1].risk_score >= 50
        /\ last_check.sent.personal => last_check.response[1].risk_score >= 100

=============================================================================
